---- MODULE Spec2Model ----
(***************************************************************************)
(* ExpenseGrabber (src/ExpenseGrabber.py): two bank CSV parsers that fill  *)
(* a list of transactions and a description -> category dict, followed by  *)
(* sort, write_csv, the printed totals and save_categories.                *)
(*                                                                         *)
(* One step of the model is one iteration of a parser's `for row in data`  *)
(* loop, the end of a file, or one statement of the tail of the script.    *)
(* CSV cells are strings; the conversions the code applies to them         *)
(* (strptime, float, int, split/strip, the substring test) are operators   *)
(* that compute the converted value or the exception.                      *)
(***************************************************************************)
EXTENDS Integers, Sequences, FiniteSets, TLC

\* ------------------------------------------------------------------ bounds
MaxRows == 2       \* rows read over the whole run
MaxFiles == 2      \* (file, bank) pairs on the command line

\* ------------------------------------------------------------ exceptions
ValueError == "ValueError"
IndexError == "IndexError"

\* --------------------------------------------------------------- strings
\* Descriptions are sequences of words, so that `s in row[4]` is computed.
COFFEE == <<"COFFEE">>
RENT == <<"RENT">>
RENT_MAY == <<"RENT", "MAY">>
Descriptions == {COFFEE, RENT_MAY}

\* s in d : s occurs in d as a contiguous run
contains(d, s) ==
    \E i \in 0..(Len(d) - Len(s)) : SubSeq(d, i + 1, i + Len(s)) = s

\* datetime.strptime(s, "%m/%d/%Y"): the date, or ValueError.
DaysInMonth(y, m) ==
    IF m = 2 THEN (IF y % 4 = 0 /\ (y % 100 # 0 \/ y % 400 = 0) THEN 29 ELSE 28)
    ELSE IF m \in {4, 6, 9, 11} THEN 30 ELSE 31

\* The text mm/dd/yyyy is held as its three number fields; any other text
\* (a header cell, a blank) has no fields
DateText(m, d, y) == [text |-> "mdy", m |-> m, d |-> d, y |-> y]
OtherText(s) == [text |-> s, m |-> 0, d |-> 0, y |-> 0]
TransactionDate == OtherText("Transaction date")

strptime(s) ==
    IF /\ s.text = "mdy"
       /\ s.y \in 1..9999
       /\ s.m \in 1..12
       /\ s.d \in 1..DaysInMonth(s.y, s.m)
    THEN [error |-> "", year |-> s.y, month |-> s.m, day |-> s.d]
    ELSE [error |-> ValueError, year |-> 0, month |-> 0, day |-> 0]

\* float(s): the value in cents, or ValueError.  Two spellings of one
\* number convert to the same value.
Number(n) == [error |-> "", value |-> n]
Raised(e) == [error |-> e, value |-> 0]

float(s) ==
    CASE s = "-4.50" -> Number(0 - 450)
      [] s = "-4.5" -> Number(0 - 450)
      [] s = "-20.00" -> Number(0 - 2000)
      [] s = "12.00" -> Number(1200)
      [] OTHER -> Raised(ValueError)

\* int(s): the integer, or ValueError.
int(s) ==
    CASE s = "0" -> Number(0)
      [] s = "1" -> Number(1)
      [] s = "-1" -> Number(0 - 1)
      [] s = "7" -> Number(7)
      [] OTHER -> Raised(ValueError)

\* str(i) for the indices printed by add_category
str(i) ==
    CASE i = 0 -> "0"
      [] i = 1 -> "1"
      [] i = 2 -> "2"
      [] i = 3 -> "3"
      [] OTHER -> "n"

\* row[3].split(":")[-1].strip()
split_last_strip(s) ==
    CASE s = "" -> ""
      [] s = "Shopping: Groceries " -> "Groceries"
      [] s = "Bills:" -> ""
      [] OTHER -> s

\* datetime ordering, the key of the sort
DateLT(a, b) ==
    \/ a.year < b.year
    \/ a.year = b.year /\ a.month < b.month
    \/ a.year = b.year /\ a.month = b.month /\ a.day < b.day


\* strftime("%B %d, %Y"), the date column of the report
strftime(d) ==
    << CASE d.month = 2 -> "February"
         [] d.month = 3 -> "March"
         [] d.month = 4 -> "April"
         [] OTHER -> "Month",
       d.day, d.year >>

\* ------------------------------------------------------------------ input
Row(bank, date, type, desc, memo, amount) ==
    [bank |-> bank, date |-> date, type |-> type, desc |-> desc,
     memo |-> memo, amount |-> amount]

NoRow == Row("", OtherText(""), "", <<>>, "", "")

\* Bank A rows: row[2] date, row[4] description, row[6] amount
RbcRow(date, desc, amount) == Row("rbc", date, "", desc, "", amount)

RbcRows ==
    { RbcRow(DateText(3, 5, 2024), COFFEE, "-4.50"),
      RbcRow(DateText(3, 2, 2024), COFFEE, "-20.00"),
      RbcRow(DateText(3, 5, 2024), RENT_MAY, "-20.00"),
      RbcRow(DateText(3, 5, 2024), COFFEE, "12.00"),
      RbcRow(DateText(4, 1, 2024), COFFEE, "-4.5"),
      RbcRow(DateText(2, 30, 2024), COFFEE, "-4.50"),
      RbcRow(DateText(3, 5, 2024), COFFEE, "abc"),
      RbcRow(DateText(4, 1, 2024), RENT_MAY, "abc"),
      RbcRow(OtherText("Transaction Date"), COFFEE, "CAD$") }

\* Bank B rows: row[0] date, row[1] type, row[2] description, row[3] memo,
\* row[4] amount
TangerineRow(date, type, desc, memo, amount) ==
    Row("tangerine", date, type, desc, memo, amount)

TangerineRows ==
    { TangerineRow(TransactionDate, "Transaction", COFFEE, "Memo", "Amount"),
      TangerineRow(DateText(3, 5, 2024), "DEBIT", COFFEE, "", "-4.5"),
      TangerineRow(DateText(3, 5, 2024), "DEBIT", RENT_MAY,
                   "Shopping: Groceries ", "-20.00"),
      TangerineRow(DateText(3, 2, 2024), "DEBIT", COFFEE,
                   "Shopping: Groceries ", "-4.50"),
      TangerineRow(DateText(3, 5, 2024), "CREDIT", COFFEE, "Bills:", "12.00"),
      TangerineRow(DateText(4, 1, 2024), "DEBIT", COFFEE, "", "-4.50"),
      TangerineRow(DateText(2, 30, 2024), "DEBIT", COFFEE, "", "-4.50"),
      TangerineRow(DateText(3, 5, 2024), "DEBIT", COFFEE, "", "abc"),
      TangerineRow(DateText(3, 5, 2024), "CREDIT", RENT_MAY, "", "abc") }

\* what the operator may type at the "Category: " prompt
Inputs == {"0", "-1", "7", "Food", "Unknown"}

\* categories.json at the start of the run
NoCategories == [d \in {} |-> ""]
InitialCategories ==
    { NoCategories,
      [d \in {COFFEE, RENT_MAY} |-> IF d = COFFEE THEN "Unknown" ELSE "Bills"] }

BankLists ==
    UNION { [1..n -> {"rbc", "tangerine"}] : n \in 1..MaxFiles }

\* ------------------------------------------------------------------ state
VARIABLES
    transactions,   \* self._transactions
    categories,     \* self.categories
    interactive,    \* self.interactive
    MONTHLY_COSTS,  \* self.MONTHLY_COSTS
    banks,          \* process_transactions: banks, paired with files
    month,          \* date.month of --date
    file,           \* process_transactions: index of the pair being parsed
    pc,             \* position in the script
    output,         \* the report file written by this run: None, or Some(rows)
    printed,        \* what the script printed after the report
    saved,          \* categories.json written by this run: None, or Some(dict)
    rows,           \* history: how many rows have been read
    lastRow,        \* history: the row read last
    prompts,        \* history: how often add_category asked about a description
    lastPrompt      \* history: the latest add_category call

vars == << transactions, categories, interactive, MONTHLY_COSTS, banks, month,
           file, pc, output, printed, saved, rows, lastRow, prompts,
                    lastPrompt >>

None == [set |-> FALSE]
Some(v) == [set |-> TRUE, value |-> v]


\* ---------------------------------------------------------------- helpers
\* dict.get(key, default)
get(dict, key, default) == IF key \in DOMAIN dict THEN dict[key] ELSE default

\* dict[key] = value
setitem(dict, key, value) ==
    [k \in DOMAIN dict \cup {key} |-> IF k = key THEN value ELSE dict[k]]

Values(dict) == { dict[k] : k \in DOMAIN dict }

\* list(set(self.categories.values())): the distinct values in some order
get_unique_categories(dict) ==
    { u \in [1..Cardinality(Values(dict)) -> Values(dict)] :
        \A i, j \in DOMAIN u : u[i] = u[j] => i = j }

\* unique_categories[i] of a Python list: a negative i counts from the end
list_getitem(list, i) ==
    IF 0 <= i /\ i < Len(list) THEN [error |-> "", value |-> list[i + 1]]
    ELSE IF 0 - Len(list) <= i /\ i < 0
         THEN [error |-> "", value |-> list[Len(list) + i + 1]]
         ELSE [error |-> IndexError, value |-> ""]

\* add_category: the try branch takes unique_categories[int(category)], the
\* bare except stores the typed text
add_category(dict, transaction, unique_categories, category) ==
    LET i == int(category)
        picked == IF i.error = "" THEN list_getitem(unique_categories, i.value)
                  ELSE [error |-> i.error, value |-> ""]
    IN  IF picked.error = "" THEN setitem(dict, transaction, picked.value)
        ELSE setitem(dict, transaction, category)

\* variant: the exclusion list is not consulted
no_monthly_cost_ignored(desc) == TRUE

\* all(s not in row[4] for s in self.MONTHLY_COSTS)
no_monthly_cost(desc) ==
    \A i \in DOMAIN MONTHLY_COSTS : ~contains(desc, MONTHLY_COSTS[i])

\* variant: the prompt does not look at the stored category
rbc_prompts_always(category) == interactive

\* parse_rbc: `category == "Unknown" and self.interactive`
rbc_prompts(category) == category = "Unknown" /\ interactive

\* variant: the month of the row is not compared
rbc_month_any(date) == TRUE

\* variant: the amount is converted before the month is compared
rbc_float_eager(date) == TRUE

\* parse_rbc: the condition of the append.  `and` evaluates left to right and
\* stops at the first false operand, so float(row[6]) is reached only when the
\* month matches.
rbc_month_matches(date) == date.month = month

rbc_float_reached(date) == rbc_month_matches(date)

rbc_included(date, row) ==
    /\ rbc_month_matches(date)
    /\ float(row.amount).value < 0
    /\ no_monthly_cost(row.desc)

\* parse_tangerine: `category == "" and self.interactive`, on the category
\* derived from row[3]
tangerine_prompts(derived) == derived = "" /\ interactive

\* parse_tangerine: the else branch next to the prompt
tangerine_fallback(derived) == "Unknown"

\* parse_tangerine: the condition of the insert; float(row[4]) is evaluated
\* only when it holds
tangerine_included(date, row) == date.month = month /\ row.type = "DEBIT"

tangerine_float_reached(date, row) == tangerine_included(date, row)

\* the transaction tuple; src is history (the row it was built from)
Transaction(date, row, category) ==
    [date |-> [year |-> date.year, month |-> date.month, day |-> date.day],
     desc |-> row.desc, category |-> category,
     amount |-> float(row.amount).value, src |-> row]

\* variant: an equal tuple already in the list is not added again
rbc_insert_dedup(list, t) ==
    IF \E i \in DOMAIN list : list[i] = t THEN list ELSE Append(list, t)

\* variant: Bank B rows are appended like Bank A rows
tangerine_append(list, t) == Append(list, t)

\* self._transactions.append(t) / self._transactions.insert(0, t)
rbc_insert(list, t) == Append(list, t)
tangerine_insert(list, t) == <<t>> \o list

\* list.sort(key=lambda transaction: transaction[0]) is stable: an element
\* goes after every element whose key is not greater
RECURSIVE insert_sorted(_, _)
insert_sorted(sorted, t) ==
    IF sorted = <<>> THEN <<t>>
    ELSE IF DateLT(t.date, sorted[Len(sorted)].date)
         THEN Append(insert_sorted(SubSeq(sorted, 1, Len(sorted) - 1), t),
                     sorted[Len(sorted)])
         ELSE Append(sorted, t)

RECURSIVE sort(_)
sort(list) ==
    IF list = <<>> THEN <<>>
    ELSE insert_sorted(sort(SubSeq(list, 1, Len(list) - 1)), list[Len(list)])

RECURSIVE Sum(_)
Sum(list) == IF list = <<>> THEN 0 ELSE list[1].amount + Sum(Tail(list))

abs(n) == IF n < 0 THEN 0 - n ELSE n

\* total_spent
total_spent(list) == abs(Sum(list))

\* the per-category loop of the script
totals_by_category(dict, list) ==
    [c \in Values(dict) |->
        abs(Sum(SelectSeq(list, LAMBDA t : t.category = c)))]


\* ------------------------------------------------------------------- Init
Init ==
    /\ transactions = <<>>
    /\ categories \in InitialCategories
    /\ interactive \in BOOLEAN
    /\ MONTHLY_COSTS \in {<<>>, <<RENT>>}
    /\ banks \in BankLists
    /\ month = 3
    /\ file = 1
    /\ pc = "parsing"
    /\ output = None
    /\ printed = None
    /\ saved = None
    /\ rows = 0
    /\ lastRow = NoRow
    /\ prompts = [d \in Descriptions |-> 0]
    /\ lastPrompt = None

Parsing(bank) ==
    /\ pc = "parsing"
    /\ file <= Len(banks)
    /\ banks[file] = bank
    /\ rows < MaxRows

Asked(row, shown, typed) ==
    Some([desc |-> row.desc, shown |-> shown, input |-> typed])

\* ------------------------------------------------- parse_rbc, one iteration
RbcAsks(row) ==
    /\ row.amount # "CAD$"
    /\ strptime(row.date).error = ""
    /\ rbc_prompts(get(categories, row.desc, "Unknown"))

parse_rbc(row, shown, typed) ==
    LET date == strptime(row.date)
        found == get(categories, row.desc, "Unknown")
        ask == rbc_prompts(found)
        dict == IF ask THEN add_category(categories, row.desc, shown, typed)
                ELSE setitem(categories, row.desc, found)
        category == IF ask THEN get(dict, row.desc, "Unknown") ELSE found
    IN  /\ rows' = rows + 1
        /\ lastRow' = row
        /\ UNCHANGED << interactive, MONTHLY_COSTS, banks, month, file, output,
                        printed, saved >>
        /\ IF row.amount = "CAD$"
           THEN UNCHANGED << transactions, categories, prompts, lastPrompt, pc >>
           ELSE IF date.error # ""
           THEN /\ pc' = "aborted"
                /\ UNCHANGED << transactions, categories, prompts, lastPrompt >>
           ELSE /\ categories' = dict
                /\ prompts' = IF ask THEN [prompts EXCEPT ![row.desc] = @ + 1]
                              ELSE prompts
                /\ lastPrompt' = IF ask THEN Asked(row, shown, typed)
                                 ELSE lastPrompt
                /\ IF rbc_float_reached(date) /\ float(row.amount).error # ""
                   THEN pc' = "aborted" /\ UNCHANGED transactions
                   ELSE /\ pc' = pc
                        /\ transactions' =
                             IF rbc_included(date, row)
                             THEN rbc_insert(transactions,
                                             Transaction(date, row, category))
                             ELSE transactions

ParseRbc ==
    /\ Parsing("rbc")
    /\ \E row \in RbcRows :
         \E shown \in IF RbcAsks(row) THEN get_unique_categories(categories)
                      ELSE {<<>>} :
           \E typed \in IF RbcAsks(row) THEN Inputs ELSE {""} :
             parse_rbc(row, shown, typed)

\* ------------------------------------------- parse_tangerine, one iteration
TangerineAsks(row) ==
    /\ row.date # TransactionDate
    /\ strptime(row.date).error = ""
    /\ get(categories, row.desc, "Unknown") = "Unknown"
    /\ tangerine_prompts(split_last_strip(row.memo))

parse_tangerine(row, shown, typed) ==
    LET date == strptime(row.date)
        found == get(categories, row.desc, "Unknown")
        derived == split_last_strip(row.memo)
        ask == found = "Unknown" /\ tangerine_prompts(derived)
        asked == add_category(categories, row.desc, shown, typed)
        category == IF found # "Unknown" THEN found
                    ELSE IF ask THEN get(asked, row.desc, "Unknown")
                    ELSE tangerine_fallback(derived)
        dict == IF found # "Unknown" THEN categories
                ELSE setitem(IF ask THEN asked ELSE categories,
                             row.desc, category)
    IN  /\ rows' = rows + 1
        /\ lastRow' = row
        /\ UNCHANGED << interactive, MONTHLY_COSTS, banks, month, file, output,
                        printed, saved >>
        /\ IF row.date = TransactionDate
           THEN UNCHANGED << transactions, categories, prompts, lastPrompt, pc >>
           ELSE IF date.error # ""
           THEN /\ pc' = "aborted"
                /\ UNCHANGED << transactions, categories, prompts, lastPrompt >>
           ELSE /\ categories' = dict
                /\ prompts' = IF ask THEN [prompts EXCEPT ![row.desc] = @ + 1]
                              ELSE prompts
                /\ lastPrompt' = IF ask THEN Asked(row, shown, typed)
                                 ELSE lastPrompt
                /\ IF tangerine_float_reached(date, row)
                      /\ float(row.amount).error # ""
                   THEN pc' = "aborted" /\ UNCHANGED transactions
                   ELSE /\ pc' = pc
                        /\ transactions' =
                             IF tangerine_included(date, row)
                             THEN tangerine_insert(transactions,
                                                   Transaction(date, row, category))
                             ELSE transactions

ParseTangerine ==
    /\ Parsing("tangerine")
    /\ \E row \in TangerineRows :
         \E shown \in IF TangerineAsks(row) THEN get_unique_categories(categories)
                      ELSE {<<>>} :
           \E typed \in IF TangerineAsks(row) THEN Inputs ELSE {""} :
             parse_tangerine(row, shown, typed)

\* ------------------------------------------------ the rest of the pipeline
\* the csv reader is exhausted: the loop over (file, bank) moves on
EndOfFile ==
    /\ pc = "parsing"
    /\ file <= Len(banks)
    /\ file' = file + 1
    /\ UNCHANGED << transactions, categories, interactive, MONTHLY_COSTS, banks,
                    month, pc, output, printed, saved, rows, lastRow, prompts,
                    lastPrompt >>

\* variant: the report is written in a finally clause
write_csv_in_finally == pc \in {"sorted", "aborted"}

\* the statements after the loop run only when the loop has ended normally
sort_reached == pc = "parsing" /\ file > Len(banks)
write_csv_reached == pc = "sorted"
print_reached == pc = "written"
save_categories_reached == pc = "printed"

Sort ==
    /\ sort_reached
    /\ transactions' = sort(transactions)
    /\ pc' = "sorted"
    /\ UNCHANGED << categories, interactive, MONTHLY_COSTS, banks, month, file,
                    output, printed, saved, rows, lastRow, prompts,
                    lastPrompt >>

write_csv(list) ==
    [i \in DOMAIN list |->
        << strftime(list[i].date), list[i].desc, list[i].category,
           list[i].amount >>]

WriteCsv ==
    /\ write_csv_reached
    /\ output' = Some(write_csv(transactions))
    /\ pc' = "written"
    /\ UNCHANGED << transactions, categories, interactive, MONTHLY_COSTS, banks,
                    month, file, printed, saved, rows, lastRow, prompts,
                    lastPrompt >>

PrintTotals ==
    /\ print_reached
    /\ printed' = Some([total |-> total_spent(transactions),
                        by_category |->
                            totals_by_category(categories, transactions)])
    /\ pc' = "printed"
    /\ UNCHANGED << transactions, categories, interactive, MONTHLY_COSTS, banks,
                    month, file, output, saved, rows, lastRow, prompts,
                    lastPrompt >>

SaveCategories ==
    /\ save_categories_reached
    /\ saved' = Some(categories)
    /\ pc' = "saved"
    /\ UNCHANGED << transactions, categories, interactive, MONTHLY_COSTS, banks,
                    month, file, output, printed, rows, lastRow, prompts,
                    lastPrompt >>

Next ==
    \/ ParseRbc
    \/ ParseTangerine
    \/ EndOfFile
    \/ Sort
    \/ WriteCsv
    \/ PrintTotals
    \/ SaveCategories

Spec == Init /\ [][Next]_vars


\* ================================================================ claims
\* Vocabulary of the claims, stated on the raw rows.
IsMarker(r) ==
    IF r.bank = "rbc" THEN r.amount = "CAD$" ELSE r.date = TransactionDate

DateParses(r) == strptime(r.date).error = ""
AmountParses(r) == float(r.amount).error = ""
InTargetMonth(r) == DateParses(r) /\ strptime(r.date).month = month
HasExcludedSubstring(desc) ==
    \E i \in DOMAIN MONTHLY_COSTS : contains(desc, MONTHLY_COSTS[i])

\* the inclusion predicate of the row's bank
BankPredicate(r) ==
    IF r.bank = "rbc"
    THEN AmountParses(r) /\ float(r.amount).value < 0
         /\ ~HasExcludedSubstring(r.desc)
    ELSE r.type = "DEBIT"

WellFormed(r) == ~IsMarker(r) /\ DateParses(r) /\ AmountParses(r)

\* this step read a row (lastRow' is that row)
ReadsRow == rows' = rows + 1

Count(list, t) == Cardinality({ i \in DOMAIN list : list[i] = t })
Elements(list) == { list[i] : i \in DOMAIN list }
SameBag(a, b) ==
    /\ Len(a) = Len(b)
    /\ \A t \in Elements(a) \cup Elements(b) : Count(a, t) = Count(b, t)

NonDecreasing(list) ==
    \A i, j \in DOMAIN list : i < j => ~DateLT(list[j].date, list[i].date)

OnDate(list, d) == SelectSeq(list, LAMBDA t : t.date = d)

ParsingOver == pc \in {"sorted", "written", "printed", "saved"}

\* ----------------------------------------------------------------- C1
C1_Added(t) ==
    /\ t.desc = lastRow'.desc
    /\ t.amount = float(lastRow'.amount).value
    /\ t.src = lastRow'
    /\ t.date.month = month

C1_Step ==
    /\ (ReadsRow /\ WellFormed(lastRow') /\ InTargetMonth(lastRow')
                 /\ BankPredicate(lastRow'))
         => /\ Len(transactions') = Len(transactions) + 1
            /\ \/ /\ transactions' = Append(transactions,
                                            transactions'[Len(transactions')])
                  /\ C1_Added(transactions'[Len(transactions')])
               \/ /\ transactions' = <<transactions'[1]>> \o transactions
                  /\ C1_Added(transactions'[1])
    /\ ReadsRow => \A t \in Elements(transactions) :
                       Count(transactions', t) >= Count(transactions, t)
    /\ ~ReadsRow => SameBag(transactions, transactions')

\* C1: every well-formed row in the target month that satisfies its bank's
\* inclusion predicate adds exactly one Transaction carrying the row's
\* description and amount; a row equal to an earlier one adds another equal
\* Transaction, and no step loses a Transaction.
C1_EveryQualifyingRowYieldsOneTransaction == [][C1_Step]_vars

\* two equal rows have been read and both are in the Ledger
C1_Witness ==
    /\ Len(transactions) = 2
    /\ transactions[1] = transactions[2]
    /\ pc = "sorted"

\* ----------------------------------------------------------------- C2
\* C2: in every reachable state every Transaction of the Ledger is dated in
\* the target month, comes from a row that satisfies its bank's inclusion
\* predicate (Bank A: amount strictly negative; Bank B: type "DEBIT"), and
\* does not come from a marker row.
C2_LedgerSatisfiesFilter ==
    \A i \in DOMAIN transactions :
        LET t == transactions[i] IN
        /\ t.date.month = month
        /\ ~IsMarker(t.src)
        /\ t.src.bank = "rbc" => (t.amount < 0 /\ float(t.src.amount).value < 0)
        /\ t.src.bank = "tangerine" => t.src.type = "DEBIT"

\* a Transaction is in the Ledger, and the row read after it passed its
\* bank's predicate but not the month filter and added nothing
C2_Witness ==
    /\ Len(transactions) = 1
    /\ rows = 2
    /\ pc = "parsing"
    /\ WellFormed(lastRow) /\ BankPredicate(lastRow) /\ ~InTargetMonth(lastRow)

\* ----------------------------------------------------------------- C3
\* C3 as claimed: no Transaction of the Ledger, from either parser, has a
\* description that contains an entry of the exclusion list.
C3_NoExcludedDescriptionAnyBank ==
    \A i \in DOMAIN transactions : ~HasExcludedSubstring(transactions[i].desc)

\* C3 amended: no Transaction that parse_rbc added has a description that
\* contains an entry of the exclusion list (parse_tangerine does not consult
\* the list).
C3_NoExcludedDescriptionFromRbc ==
    \A i \in DOMAIN transactions :
        transactions[i].src.bank = "rbc"
            => ~HasExcludedSubstring(transactions[i].desc)

\* parse_rbc read a negative row of the target month whose description
\* contains an excluded entry, and added nothing
C3_Witness ==
    /\ rows = 1
    /\ pc = "parsing"
    /\ lastRow.bank = "rbc"
    /\ WellFormed(lastRow) /\ InTargetMonth(lastRow)
    /\ float(lastRow.amount).value < 0
    /\ HasExcludedSubstring(lastRow.desc)
    /\ transactions = <<>>

\* ----------------------------------------------------------------- C4
C4_Step ==
    /\ (pc = "parsing" /\ pc' = "sorted")
         => /\ NonDecreasing(transactions')
            /\ Len(transactions') = Len(transactions)
            /\ \A t \in Elements(transactions) \cup Elements(transactions') :
                   OnDate(transactions', t.date) = OnDate(transactions, t.date)
    /\ (ReadsRow /\ transactions' # transactions)
         => IF lastRow'.bank = "rbc"
            THEN /\ Len(transactions') = Len(transactions) + 1
                 /\ SubSeq(transactions', 1, Len(transactions)) = transactions
            ELSE /\ Len(transactions') = Len(transactions) + 1
                 /\ Tail(transactions') = transactions
    /\ ParsingOver' => NonDecreasing(transactions')

\* C4: the sort leaves the dates non-decreasing and keeps, for every date,
\* the Transactions of that date in their order before the sort; before the
\* sort a Bank A row was added at the end of the Ledger and a Bank B row at
\* its front; the Ledger stays sorted once parsing is over.
C4_StableSortOfInsertionOrder == [][C4_Step]_vars

\* two Bank B rows of one date were read; after the sort the row read last
\* is still ahead of the row read first
C4_Witness ==
    /\ pc = "sorted"
    /\ Len(transactions) = 2
    /\ transactions[1].src.bank = "tangerine"
    /\ transactions[2].src.bank = "tangerine"
    /\ transactions[1].date = transactions[2].date
    /\ transactions[1].desc # transactions[2].desc
    /\ transactions[1].src = lastRow

\* ----------------------------------------------------------------- C5
Malformed(r) == ~IsMarker(r) /\ (~DateParses(r) \/ ~AmountParses(r))

\* the rows on which the code reaches a conversion that raises
ConversionRaises(r) ==
    /\ ~IsMarker(r)
    /\ \/ ~DateParses(r)
       \/ /\ ~AmountParses(r)
          /\ InTargetMonth(r)
          /\ r.bank = "tangerine" => r.type = "DEBIT"

\* C5 as claimed: once a non-marker row with an unparseable date or a
\* non-numeric amount has been read, the run is aborted.
C5_EveryMalformedRowAborts ==
    (rows > 0 /\ Malformed(lastRow)) => pc = "aborted"

\* C5 amended: the run is aborted exactly by a non-marker row whose date is
\* unparseable, or whose amount is non-numeric while the row is in the target
\* month (and, for Bank B, of type "DEBIT"); a row with a non-numeric amount
\* outside these cases is skipped without an error.
C5_AbortsExactlyWhenConversionReached ==
    rows > 0 => (pc = "aborted" <=> ConversionRaises(lastRow))

\* a row with a non-numeric amount has been read and the run goes on
C5_Witness ==
    /\ rows > 0
    /\ ~IsMarker(lastRow) /\ DateParses(lastRow) /\ ~AmountParses(lastRow)
    /\ pc = "sorted"

\* ----------------------------------------------------------------- C6
\* C6: the report exists only when every (file, bank) pair has been parsed
\* and the Ledger is sorted; the category state is saved only when the
\* report exists and the totals are printed; a run aborted by a row has
\* written neither file.
C6_OutputOnlyAfterCompleteParse ==
    /\ output.set => /\ file > Len(banks)
                     /\ NonDecreasing(transactions)
                     /\ pc \in {"written", "printed", "saved"}
                     /\ ~(rows > 0 /\ ConversionRaises(lastRow))
    /\ printed.set => output.set
    /\ saved.set => output.set /\ printed.set
    /\ pc = "aborted" => ~output.set /\ ~printed.set /\ ~saved.set

\* a row of the second file aborted the run after a Transaction was added
C6_Witness ==
    /\ pc = "aborted"
    /\ file = 2
    /\ Len(transactions) = 1
    /\ ~output.set

\* ----------------------------------------------------------------- C7
C7_Step ==
    (/\ ReadsRow
     /\ lastRow'.bank = "tangerine"
     /\ ~interactive
     /\ ~IsMarker(lastRow') /\ DateParses(lastRow')
     /\ get(categories, lastRow'.desc, "Unknown") = "Unknown")
    => /\ lastRow'.desc \in DOMAIN categories'
       /\ categories'[lastRow'.desc] = split_last_strip(lastRow'.memo)
       /\ transactions' # transactions
            => transactions'[1].category = split_last_strip(lastRow'.memo)

\* C7 as claimed: when parse_tangerine, not interactive, reads a row whose
\* description the CategoryMap does not resolve, the trimmed last
\* colon-delimited segment of column 3 is stored for the description and
\* carried by the Transaction.
C7_DerivedCategoryStored == [][C7_Step]_vars

\* ----------------------------------------------------------------- C8
DisplayedIndices(shown) == { str(i) : i \in 0..(Len(shown) - 1) }

Chosen(shown, typed) ==
    IF typed \in DisplayedIndices(shown)
    THEN shown[(CHOOSE i \in 0..(Len(shown) - 1) : str(i) = typed) + 1]
    ELSE typed

C8_Step ==
    (\E d \in Descriptions : prompts'[d] # prompts[d])
    => LET p == lastPrompt'.value IN
       /\ DOMAIN categories' = DOMAIN categories \cup {p.desc}
       /\ categories'[p.desc] = Chosen(p.shown, p.input)
       /\ \A k \in DOMAIN categories \ {p.desc} : categories'[k] = categories[k]

\* C8 as claimed: a prompt stores, for the prompted description, the
\* category shown at the typed index when the typed text is one of the
\* displayed indices and the typed text itself otherwise, and changes no
\* other entry.
C8_IndexOrLiteral == [][C8_Step]_vars

C9_Step ==
    /\ \A d \in Descriptions :
         prompts'[d] # prompts[d]
           => /\ prompts'[d] = prompts[d] + 1
              /\ interactive
              /\ get(categories, d, "Unknown") = "Unknown"
              /\ lastPrompt'.value.desc = d
              /\ d \in DOMAIN categories'
              /\ categories'[d] \in Elements(lastPrompt'.value.shown)
                                      \cup {lastPrompt'.value.input}
    /\ \A d \in DOMAIN categories :
         /\ d \in DOMAIN categories'
         /\ categories[d] # "Unknown" => categories'[d] = categories[d]
    /\ (ReadsRow /\ ~IsMarker(lastRow') /\ DateParses(lastRow'))
         => lastRow'.desc \in DOMAIN categories'

C10_LedgerAgreesWithCategoryMap ==
    ParsingOver =>
        \A i \in DOMAIN transactions :
            /\ transactions[i].desc \in DOMAIN categories
            /\ transactions[i].category = categories[transactions[i].desc]
            /\ transactions[i].category \in Values(categories)

====
